---- MODULE Spec2Model ----
(***************************************************************************)
(* Model of script.py: a single-run batch job that logs in to the social   *)
(* client with a cached session, picks the schedule row closest to "now",  *)
(* downloads the asset from the drive, publishes it as post and story,     *)
(* removes the local files, samples likers of a target account and likes   *)
(* posts of the sampled users.                                             *)
(*                                                                         *)
(* Every function of the script is an operator computing, from its         *)
(* arguments and from the answers of the external services (drawn with \E  *)
(* in the actions), the calls it makes, what it returns and the files it   *)
(* leaves.  The actions are the statements of the __main__ block.          *)
(***************************************************************************)
EXTENDS Integers, Sequences, FiniteSets, TLC

VARIABLES
    pc,               \* position in the __main__ block
    raised_in,        \* the function whose exception ended the run ("" if none)
    trace,            \* the external calls made so far, <<step, call>>
    session_file,     \* content of insta_session.json (Absent, or a session id)
    issued,           \* number of sessions the server has issued
    local_files,      \* local media files: name -> content (Absent if none)
    lg,               \* frame of the last login_with_session call
    sel,              \* frame of the last get_closest_media_row call
    dl,               \* frame of the last download_file_from_drive call
    nf_ret,           \* value returned by the fetcher per not-found kind
    pub,              \* frame of the last upload_video_and_story call
    smp,              \* frame of the last get_random_likers_from_targets call
    file_name,        \* __main__: file_name, the 'File Path' of media_row
    media_path,       \* __main__: media_path
    usernames,        \* __main__: usernames
    idx,              \* process_usernames: index of the next user of the loop
    attempted,        \* process_usernames: users whose iteration has run
    caught,           \* process_usernames: an iteration ended in the except clause
    cur               \* process_usernames: what the last iteration did

vars == <<pc, raised_in, trace, session_file, issued, local_files, lg, sel, dl,
          nf_ret, pub, smp, file_name, media_path, usernames, idx, attempted,
          caught, cur>>

----------------------------------------------------------------------------
(* Bounds of the model *)

MaxRows == 3          \* rows of media_schedule.csv, when the selector is called alone
RunRows == 1          \* rows of media_schedule.csv, in a whole run
MaxTime == 3          \* timestamps and "now" range over 0..MaxTime
MaxLikers == 11       \* likers of a post, as returned by media_likers
MaxPosts == 5         \* posts of an account

(* Constants of the program *)

LIKERS_KEPT == 10     \* [:10]
SAMPLE_AMOUNT == 10   \* user_medias(user_id, amount=10)
MIN_POSTS == 4        \* media_count > 4
LIKE_AMOUNT == 4      \* user_medias(user_info.pk, amount=4)

Absent == 0           \* a file that does not exist
None == "None"        \* Python's None

FileNames == {"a.mp4", "b.mp4"}
Jpg(name) == IF name = "a.mp4" THEN "a.mp4.jpg" ELSE "b.mp4.jpg"
LocalNames == FileNames \cup {Jpg(n) : n \in FileNames}

Min(a, b) == IF a < b THEN a ELSE b
Abs(x) == IF x < 0 THEN -x ELSE x
Range(s) == {s[i] : i \in 1..Len(s)}
UpTo(n) == [i \in 1..n |-> i]
DownFrom(n) == [i \in 1..n |-> n + 1 - i]
Tag(step, calls) == [i \in 1..Len(calls) |-> <<step, calls[i]>>]
Calls(step) == SelectSeq(trace, LAMBDA e : e[1] = step)
Has(step, call) == \E i \in 1..Len(trace) : trace[i] = <<step, call>>

----------------------------------------------------------------------------
(* login_with_session *)

os_path_exists(file) == file # Absent

\* login_with_session without dump_settings after the full login.
login_with_session_nodump(file, loadOk, reloginOk, loginOk, fresh) ==
    IF os_path_exists(file) /\ ~loadOk
    THEN [ret |-> "raise", file |-> file, settings |-> Absent,
          calls |-> <<"load_settings_fail">>]
    ELSE IF os_path_exists(file) /\ reloginOk
    THEN [ret |-> "client", file |-> file, settings |-> file,
          calls |-> <<"load_settings", "relogin">>]
    ELSE LET tried == IF os_path_exists(file)
                      THEN <<"load_settings", "relogin_fail">> ELSE << >>
         IN  IF ~loginOk
             THEN [ret |-> "raise", file |-> file, settings |-> file,
                   calls |-> tried \o <<"login_fail">>]
             ELSE [ret |-> "client", file |-> file, settings |-> fresh,
                   calls |-> tried \o <<"login">>]

\* The calls made on the client, the returned client ("raise" if an exception
\* leaves the function) and the session file afterwards.  fresh is the
\* session a successful full login obtains.
login_with_session(file, loadOk, reloginOk, loginOk, fresh) ==
    IF os_path_exists(file) /\ ~loadOk
    THEN [ret |-> "raise", file |-> file, settings |-> Absent,
          calls |-> <<"load_settings_fail">>]
    ELSE IF os_path_exists(file) /\ reloginOk
    THEN [ret |-> "client", file |-> file, settings |-> file,
          calls |-> <<"load_settings", "relogin">>]
    ELSE LET tried == IF os_path_exists(file)
                      THEN <<"load_settings", "relogin_fail">> ELSE << >>
         IN  IF ~loginOk
             THEN [ret |-> "raise", file |-> file, settings |-> file,
                   calls |-> tried \o <<"login_fail">>]
             ELSE [ret |-> "client", file |-> fresh, settings |-> fresh,
                   calls |-> tried \o <<"login", "dump_settings">>]

NoLogin == [live |-> FALSE, before |-> Absent, ret |-> "none",
            settings |-> Absent, calls |-> << >>]

LoginFrame(r) == [live |-> TRUE, before |-> session_file, ret |-> r.ret,
                  settings |-> r.settings, calls |-> r.calls]

----------------------------------------------------------------------------
(* get_closest_media_row *)

Rows == [ts : 0..MaxTime, file : FileNames]
Schedules(rows) == UNION {[1..n -> Rows] : n \in 0..rows}

\* schedule_df['Time Delta'] = (schedule_df['Date & Time'] - now).abs()
TimeDelta(schedule_df, current_time_utc) ==
    [i \in 1..Len(schedule_df) |-> Abs(schedule_df[i].ts - current_time_utc)]

\* scan_min with <= for <: the label of the last smallest value is kept.
RECURSIVE scan_min_last(_, _, _)
scan_min_last(s, i, best) ==
    IF i > Len(s) THEN best
    ELSE scan_min_last(s, i + 1, IF s[i] <= s[best] THEN i ELSE best)

\* Series.idxmin: a scan that keeps the label of the first smallest value.
RECURSIVE scan_min(_, _, _)
scan_min(s, i, best) ==
    IF i > Len(s) THEN best
    ELSE scan_min(s, i + 1, IF s[i] < s[best] THEN i ELSE best)

\* idxmin of an empty Series raises ValueError; 0 stands for that.
idxmin(s) == IF Len(s) = 0 THEN 0 ELSE scan_min(s, 2, 1)

\* The returned row is a Series with the columns of the frame as its index.
RowSeries(schedule_df, current_time_utc, i) ==
    [ts |-> schedule_df[i].ts, file |-> schedule_df[i].file,
     delta |-> TimeDelta(schedule_df, current_time_utc)[i], label |-> i]

NoRow == [ts |-> 0, file |-> "", delta |-> 0, label |-> 0]

get_closest_media_row(schedule_df, current_time_utc) ==
    LET label == idxmin(TimeDelta(schedule_df, current_time_utc))
    IN  IF label = 0 THEN [raised |-> TRUE, row |-> NoRow]
        ELSE [raised |-> FALSE,
              row |-> RowSeries(schedule_df, current_time_utc, label)]

\* Series.empty: the Series has no element.
series_empty(row) == DOMAIN row = {}

NoSelect == [live |-> FALSE, schedule |-> << >>, now |-> 0, raised |-> FALSE,
             row |-> NoRow]

----------------------------------------------------------------------------
(* download_file_from_drive *)

FolderIds == {1, 2}
\* What a files().list query can answer: no match, one match, or several.
FolderResults == {<< >>, <<1>>, <<2>>, <<1, 2>>, <<2, 1>>}
FileResults == {<< >>, <<1>>, <<2>>, <<1, 2>>}

Partial == -1                                \* a file left by a failed download
Content(folder_id, file_id) == 10 * folder_id + file_id   \* the remote bytes

\* first_match taking the last result instead of the first.
first_match_last(results) == results[Len(results)]

\* folders[0], files[0]
first_match(results) == results[1]

\* folders is the answer to the folder query, filesOf[f] the answer to the
\* file query with parent f.  The result holds the returned value ("raise" if
\* the download fails), the message printed last and the local files.
download_file_from_drive(files, name, folders, filesOf, downloadOk) ==
    IF folders = << >>
    THEN [ret |-> None, files |-> files, log |-> "folder_not_found",
          calls |-> <<"list_folders">>]
    ELSE LET folder_id == first_match(folders)
             found == filesOf[folder_id]
         IN  IF found = << >>
             THEN [ret |-> None, files |-> files, log |-> "file_not_found",
                   calls |-> <<"list_folders", "list_files">>]
             ELSE IF downloadOk
             THEN [ret |-> name,
                   files |-> [files EXCEPT ![name] =
                                 Content(folder_id, first_match(found))],
                   log |-> "downloaded",
                   calls |-> <<"list_folders", "list_files", "get_media">>]
             ELSE [ret |-> "raise",
                   files |-> [files EXCEPT ![name] = Partial],
                   log |-> "found_file",
                   calls |-> <<"list_folders", "list_files", "get_media_fail">>]

\* What the drive answers to the calls of one download; an answer to a call
\* that is not made is left at its default.
DriveAnswers ==
    {a \in [folders : FolderResults, filesOf : [FolderIds -> FileResults],
            downloadOk : BOOLEAN] :
        /\ \A f \in FolderIds : f \notin Range(a.folders) => a.filesOf[f] = << >>
        /\ (\A f \in FolderIds : a.filesOf[f] = << >>) => ~a.downloadOk}

NoDownload == [live |-> FALSE, file_name |-> "", folders |-> << >>,
               filesOf |-> [f \in FolderIds |-> << >>],
               before |-> [n \in LocalNames |-> Absent],
               ret |-> "none", log |-> "", calls |-> << >>]

DownloadFrame(name, folders, filesOf, r) ==
    [live |-> TRUE, file_name |-> name, folders |-> folders,
     filesOf |-> filesOf, before |-> local_files, ret |-> r.ret,
     log |-> r.log, calls |-> r.calls]

Unset == "unset"
\* The value returned for each kind of not-found outcome seen so far.
RecordNotFound(r) ==
    IF r.log = "folder_not_found" THEN [nf_ret EXCEPT !["folder"] = r.ret]
    ELSE IF r.log = "file_not_found" THEN [nf_ret EXCEPT !["file"] = r.ret]
    ELSE nf_ret

----------------------------------------------------------------------------
(* upload_video_and_story *)

\* upload_video_and_story catching the exception of the story upload.
upload_video_and_story_swallow(postOk, storyOk) ==
    IF ~postOk THEN [raised |-> TRUE, calls |-> <<"video_upload_fail">>]
    ELSE IF ~storyOk
    THEN [raised |-> FALSE,
          calls |-> <<"video_upload", "video_upload_to_story_fail">>]
    ELSE [raised |-> FALSE,
          calls |-> <<"video_upload", "video_upload_to_story">>]

\* The story upload follows the post upload; an exception of either leaves
\* the function.
upload_video_and_story(postOk, storyOk) ==
    IF ~postOk THEN [raised |-> TRUE, calls |-> <<"video_upload_fail">>]
    ELSE IF ~storyOk
    THEN [raised |-> TRUE,
          calls |-> <<"video_upload", "video_upload_to_story_fail">>]
    ELSE [raised |-> FALSE,
          calls |-> <<"video_upload", "video_upload_to_story">>]

NoPublish == [live |-> FALSE, raised |-> FALSE, calls |-> << >>]

----------------------------------------------------------------------------
(* get_random_likers_from_targets *)

NumTargets == 5       \* the five target_usernames of __main__
TARGET_USERNAMES == UpTo(NumTargets)
TargetLists == {<< >>, <<1>>, TARGET_USERNAMES}
\* A post has no liker, a few, or as many as are kept and more; media_likers
\* answers them in either order.
LikerCounts == {0, 1, 2} \cup (LIKERS_KEPT..MaxLikers)
LikerLists == {UpTo(n) : n \in LikerCounts} \cup
              {DownFrom(n) : n \in LikerCounts}

\* cl.user_medias(user_id, amount): the first amount posts of the account.
user_medias(posts, amount) == SubSeq(posts, 1, Min(Len(posts), amount))

\* Take without the slice.
Take_all(s, n) == s

\* [...][:n]
Take(s, n) == SubSeq(s, 1, Min(Len(s), n))

\* except Exception: print and return []
sampler_except(calls) == [raised |-> FALSE, ret |-> << >>, calls |-> calls]

\* nposts is the number of posts of the chosen account, likers the answer of
\* media_likers for the chosen post.
get_random_likers_from_targets(targets, uidOk, mediasOk, nposts, likersOk, likers) ==
    IF targets = << >> THEN sampler_except(<< >>)
    ELSE IF ~uidOk THEN sampler_except(<<"user_id_from_username_fail">>)
    ELSE IF ~mediasOk
    THEN sampler_except(<<"user_id_from_username", "user_medias_fail">>)
    ELSE IF user_medias(UpTo(nposts), SAMPLE_AMOUNT) = << >>
    THEN [raised |-> FALSE, ret |-> << >>,
          calls |-> <<"user_id_from_username", "user_medias">>]
    ELSE IF ~likersOk
    THEN sampler_except(<<"user_id_from_username", "user_medias",
                          "media_likers_fail">>)
    ELSE [raised |-> FALSE, ret |-> Take(likers, LIKERS_KEPT),
          calls |-> <<"user_id_from_username", "user_medias",
                      "media_likers">>]

\* What the client answers to the calls of the sampler; an answer to a call
\* that is not made is left at its default.
SampleAnswers ==
    {a \in [uidOk : BOOLEAN, mediasOk : BOOLEAN, nposts : 0..MaxPosts,
            likersOk : BOOLEAN, likers : LikerLists] :
        /\ ~a.uidOk => ~a.mediasOk
        /\ ~a.mediasOk => a.nposts = 0
        /\ a.nposts = 0 => ~a.likersOk
        /\ ~a.likersOk => a.likers = << >>}

NoSample == [live |-> FALSE, targets |-> << >>, uidOk |-> FALSE,
             mediasOk |-> FALSE, nposts |-> 0, likersOk |-> FALSE,
             likers |-> << >>, raised |-> FALSE, ret |-> << >>,
             calls |-> << >>]

SampleFrame(targets, uidOk, mediasOk, nposts, likersOk, likers, r) ==
    [live |-> TRUE, targets |-> targets, uidOk |-> uidOk,
     mediasOk |-> mediasOk, nposts |-> nposts, likersOk |-> likersOk,
     likers |-> likers, raised |-> r.raised, ret |-> r.ret,
     calls |-> r.calls]

----------------------------------------------------------------------------
(* process_usernames *)

\* qualifies with >= for >.
qualifies_ge(is_private, media_count) == ~is_private /\ media_count >= MIN_POSTS

\* not user_info.is_private and user_info.media_count > 4
qualifies(is_private, media_count) == ~is_private /\ media_count > MIN_POSTS

\* One iteration of the loop.  nposts is the number of posts the account
\* has when user_medias is called, failAt the like call that raises (none if
\* it is not the index of a returned post).
process_user(user, infoOk, is_private, media_count, mediasOk, nposts, failAt) ==
    LET base == [live |-> TRUE, user |-> user, infoOk |-> infoOk,
                 is_private |-> is_private, media_count |-> media_count,
                 fetches |-> 0, amount |-> 0, nposts |-> 0, returned |-> 0,
                 like_calls |-> 0, liked |-> 0, raised |-> FALSE]
    IN  IF ~infoOk
        THEN [base EXCEPT !.is_private = FALSE, !.media_count = 0,
                          !.raised = TRUE]
        ELSE IF ~qualifies(is_private, media_count) THEN base
        ELSE IF ~mediasOk
        THEN [base EXCEPT !.fetches = 1, !.amount = LIKE_AMOUNT,
                          !.raised = TRUE]
        ELSE LET media_list == user_medias(UpTo(nposts), LIKE_AMOUNT)
                 n == Len(media_list)
                 fails == failAt \in 1..n
             IN  [base EXCEPT !.fetches = 1, !.amount = LIKE_AMOUNT,
                              !.nposts = nposts, !.returned = n,
                              !.like_calls = IF fails THEN failAt ELSE n,
                              !.liked = IF fails THEN failAt - 1 ELSE n,
                              !.raised = fails]

\* What the client answers to the calls of one iteration: user_info fails;
\* or it answers an account that is skipped; or it answers a qualifying
\* account and user_medias fails, or answers nposts posts and like number
\* failAt raises (none if failAt = 0).
UserAnswers ==
    LET D == [infoOk |-> TRUE, is_private |-> FALSE, media_count |-> 0,
              mediasOk |-> FALSE, nposts |-> 0, failAt |-> 0]
        Accounts == BOOLEAN \X (0..MaxPosts)
        Asked == {c \in Accounts : qualifies(c[1], c[2])}
        Likes == {x \in (0..MaxPosts) \X (0..MaxPosts) :
                     x[2] <= Len(user_medias(UpTo(x[1]), LIKE_AMOUNT))}
    IN  {[D EXCEPT !.infoOk = FALSE]}
        \cup {[D EXCEPT !.is_private = c[1], !.media_count = c[2]] :
                  c \in Accounts}
        \cup {[D EXCEPT !.is_private = c[1], !.media_count = c[2],
                        !.mediasOk = TRUE, !.nposts = x[1], !.failAt = x[2]] :
                  c \in Asked, x \in Likes}

\* loop_except letting the exception leave the loop.
loop_except_reraise(raised) == IF raised THEN "raise" ELSE "continue"

\* except Exception inside the loop: print, and the loop goes on.
loop_except(raised) == "continue"

NoUser == [live |-> FALSE, user |-> 0, infoOk |-> FALSE,
           is_private |-> FALSE, media_count |-> 0, fetches |-> 0,
           amount |-> 0, nposts |-> 0, returned |-> 0, like_calls |-> 0,
           liked |-> 0,
           raised |-> FALSE]

----------------------------------------------------------------------------
(* __main__ *)

\* truthy_path with the test of media_path left out.
truthy_path_always(path) == TRUE

\* if media_path:
truthy_path(path) == path # None /\ path # ""

\* truthy_list with the test of usernames left out.
truthy_list_always(list) == TRUE

\* if usernames:
truthy_list(list) == list # << >>

\* os.remove(media_path), and os.remove of the '.jpg' file if it exists.
cleanup(files, path) ==
    IF path \notin FileNames \/ files[path] = Absent
    THEN [raised |-> TRUE, files |-> files, calls |-> <<"remove_fail">>]
    ELSE IF files[Jpg(path)] # Absent
    THEN [raised |-> FALSE,
          files |-> [files EXCEPT ![path] = Absent, ![Jpg(path)] = Absent],
          calls |-> <<"remove", "remove_jpg">>]
    ELSE [raised |-> FALSE, files |-> [files EXCEPT ![path] = Absent],
          calls |-> <<"remove">>]

\* video_upload writes a thumbnail next to the video when it makes one.
with_thumbnail(files, path, made) ==
    IF made /\ path \in FileNames THEN [files EXCEPT ![Jpg(path)] = 1]
    ELSE files

Goto(next) == pc' = next /\ raised_in' = raised_in
Raise(fn) == pc' = "raised" /\ raised_in' = fn
Frames(l, s, d, p, m) ==
    lg' = l /\ sel' = s /\ dl' = d /\ pub' = p /\ smp' = m
Loop == <<idx, attempted, caught, cur>>

Init ==
    /\ pc = "login1"
    /\ raised_in = ""
    /\ trace = << >>
    /\ session_file \in {Absent, 1}
    /\ issued = 1
    /\ local_files = [n \in LocalNames |-> Absent]
    /\ lg = NoLogin /\ sel = NoSelect /\ dl = NoDownload
    /\ pub = NoPublish /\ smp = NoSample
    /\ nf_ret = [k \in {"folder", "file"} |-> Unset]
    /\ file_name = ""
    /\ media_path = None
    /\ usernames = << >>
    /\ idx = 1 /\ attempted = << >> /\ caught = FALSE /\ cur = NoUser

\* instagram_client = Client(); login_with_session(...)
Login(step, next) ==
    /\ pc = step
    /\ \E loadOk, reloginOk, loginOk \in BOOLEAN :
          LET r == login_with_session(session_file, loadOk, reloginOk,
                                      loginOk, issued + 1)
          IN  /\ session_file' = r.file
              /\ issued' = IF r.file # session_file THEN issued + 1 ELSE issued
              /\ trace' = trace \o Tag(step, <<"Client">> \o r.calls)
              /\ Frames(LoginFrame(r), NoSelect, NoDownload, NoPublish, NoSample)
              /\ IF r.ret = "raise" THEN Raise("login_with_session")
                 ELSE Goto(next)
    /\ UNCHANGED <<local_files, nf_ret, file_name, media_path, usernames, Loop>>

Login1 == Login("login1", "service")

\* credentials = ...from_service_account_info(eval(...)); service = build(...)
BuildService ==
    /\ pc = "service"
    /\ \E ok \in BOOLEAN :
          /\ trace' = Append(trace, <<"service", IF ok THEN "build" ELSE "build_fail">>)
          /\ IF ok THEN Goto("select") ELSE Raise("build")
    /\ Frames(NoLogin, NoSelect, NoDownload, NoPublish, NoSample)
    /\ UNCHANGED <<session_file, issued, local_files, nf_ret, file_name,
                   media_path, usernames, Loop>>

\* One call of get_closest_media_row on the schedule file and the clock.
Selecting(schedule, now) ==
    LET r == get_closest_media_row(schedule, now)
    IN  sel' = [live |-> TRUE, schedule |-> schedule, now |-> now,
                raised |-> r.raised, row |-> r.row]

\* media_row = get_closest_media_row(...); if not media_row.empty:
\*     file_name = media_row['File Path']
Select ==
    /\ pc = "select"
    /\ \E schedule \in Schedules(RunRows), now \in 0..MaxTime :
          LET r == get_closest_media_row(schedule, now)
          IN  /\ Selecting(schedule, now)
              /\ lg' = NoLogin /\ dl' = NoDownload /\ pub' = NoPublish
              /\ smp' = NoSample
              /\ trace' = Append(trace, <<"select", "read_csv">>)
              /\ IF r.raised
                 THEN Raise("get_closest_media_row") /\ file_name' = file_name
                 ELSE IF series_empty(r.row)
                 THEN Goto("done") /\ file_name' = file_name
                 ELSE Goto("download") /\ file_name' = r.row.file
    /\ UNCHANGED <<session_file, issued, local_files, nf_ret, media_path,
                   usernames, Loop>>

\* One call of download_file_from_drive on the answers of the drive.
Fetch(name, folders, filesOf, downloadOk) ==
    LET r == download_file_from_drive(local_files, name, folders,
                                      filesOf, downloadOk)
    IN  /\ local_files' = r.files
        /\ nf_ret' = RecordNotFound(r)
        /\ dl' = DownloadFrame(name, folders, filesOf, r)
        /\ media_path' = IF r.ret = "raise" THEN media_path ELSE r.ret

\* media_path = download_file_from_drive(...); if media_path:
Download ==
    /\ pc = "download"
    /\ \E a \in DriveAnswers :
          /\ Fetch(file_name, a.folders, a.filesOf, a.downloadOk)
          /\ trace' = trace \o Tag("download", dl'.calls)
          /\ IF dl'.ret = "raise" THEN Raise("download_file_from_drive")
             ELSE Goto(IF truthy_path(dl'.ret) THEN "publish" ELSE "done")
    /\ lg' = NoLogin /\ sel' = NoSelect /\ pub' = NoPublish /\ smp' = NoSample
    /\ UNCHANGED <<session_file, issued, file_name, usernames, Loop>>

\* upload_video_and_story(instagram_client, media_path, caption)
Publish ==
    /\ pc = "publish"
    /\ \E postOk, storyOk, thumb \in BOOLEAN :
          LET r == upload_video_and_story(postOk, storyOk)
          IN  /\ local_files' = with_thumbnail(local_files, media_path, thumb)
              /\ trace' = trace \o Tag("publish", r.calls)
              /\ Frames(NoLogin, NoSelect, NoDownload,
                        [live |-> TRUE, raised |-> r.raised, calls |-> r.calls],
                        NoSample)
              /\ IF r.raised THEN Raise("upload_video_and_story")
                 ELSE Goto("cleanup")
    /\ UNCHANGED <<session_file, issued, nf_ret, file_name, media_path,
                   usernames, Loop>>

\* os.remove(media_path) ... os.remove(jpg_file_path)
Cleanup ==
    /\ pc = "cleanup"
    /\ LET r == cleanup(local_files, media_path)
       IN  /\ local_files' = r.files
           /\ trace' = trace \o Tag("cleanup", r.calls)
           /\ IF r.raised THEN Raise("remove") ELSE Goto("sample")
    /\ Frames(NoLogin, NoSelect, NoDownload, NoPublish, NoSample)
    /\ UNCHANGED <<session_file, issued, nf_ret, file_name, media_path,
                   usernames, Loop>>

\* One call of get_random_likers_from_targets on the answers of the client.
Sampling(targets, uidOk, mediasOk, nposts, likersOk, likers) ==
    LET r == get_random_likers_from_targets(targets, uidOk, mediasOk, nposts,
                                            likersOk, likers)
    IN  /\ smp' = SampleFrame(targets, uidOk, mediasOk, nposts, likersOk,
                              likers, r)
        /\ usernames' = IF r.raised THEN usernames ELSE r.ret

\* usernames = get_random_likers_from_targets(...); if usernames:
Sample ==
    /\ pc = "sample"
    /\ \E a \in SampleAnswers :
          /\ Sampling(TARGET_USERNAMES, a.uidOk, a.mediasOk, a.nposts,
                      a.likersOk, a.likers)
          /\ trace' = trace \o Tag("sample", smp'.calls)
          /\ IF smp'.raised THEN Raise("get_random_likers_from_targets")
             ELSE Goto(IF truthy_list(smp'.ret) THEN "login2" ELSE "done")
    /\ lg' = NoLogin /\ sel' = NoSelect /\ dl' = NoDownload /\ pub' = NoPublish
    /\ UNCHANGED <<session_file, issued, local_files, nf_ret, file_name,
                   media_path, Loop>>

Login2 == Login("login2", "engage")

\* for user in usernames: try: ... except Exception: ...
ProcessUser ==
    /\ pc = "engage"
    /\ idx <= Len(usernames)
    /\ \E a \in UserAnswers :
          LET r == process_user(usernames[idx], a.infoOk, a.is_private,
                                a.media_count, a.mediasOk, a.nposts, a.failAt)
          IN  /\ cur' = r
              /\ attempted' = Append(attempted, usernames[idx])
              /\ caught' = (caught \/ r.raised)
              /\ IF r.raised /\ loop_except(r.raised) # "continue"
                 THEN Raise("process_usernames") /\ idx' = idx
                 ELSE Goto("engage") /\ idx' = idx + 1
    /\ trace' = Append(trace, <<"engage", "iteration">>)
    /\ Frames(NoLogin, NoSelect, NoDownload, NoPublish, NoSample)
    /\ UNCHANGED <<session_file, issued, local_files, nf_ret, file_name,
                   media_path, usernames>>

\* The loop has run over the whole list: process_usernames returns.
EngageDone ==
    /\ pc = "engage"
    /\ idx > Len(usernames)
    /\ Goto("done")
    /\ UNCHANGED <<trace, session_file, issued, local_files, lg, sel, dl,
                   nf_ret, pub, smp, file_name, media_path, usernames, Loop>>

Next ==
    \/ Login1
    \/ BuildService
    \/ Select
    \/ Download
    \/ Publish
    \/ Cleanup
    \/ Sample
    \/ Login2
    \/ ProcessUser
    \/ EngageDone

Spec == Init /\ [][Next]_vars

----------------------------------------------------------------------------
(* get_closest_media_row called on any schedule and any clock.              *)

InitSelect ==
    /\ pc = "selector"
    /\ raised_in = ""
    /\ trace = << >>
    /\ session_file = Absent
    /\ issued = 1
    /\ local_files = [n \in LocalNames |-> Absent]
    /\ lg = NoLogin /\ sel = NoSelect /\ dl = NoDownload
    /\ pub = NoPublish /\ smp = NoSample
    /\ nf_ret = [k \in {"folder", "file"} |-> Unset]
    /\ file_name = ""
    /\ media_path = None
    /\ usernames = << >>
    /\ idx = 1 /\ attempted = << >> /\ caught = FALSE /\ cur = NoUser

SelectCall ==
    /\ pc = "selector"
    /\ \E schedule \in Schedules(MaxRows), now \in 0..MaxTime :
          /\ Selecting(schedule, now)
          /\ IF sel'.raised THEN Raise("get_closest_media_row")
             ELSE Goto("selected")
    /\ UNCHANGED <<trace, session_file, issued, local_files, lg, dl, nf_ret,
                   pub, smp, file_name, media_path, usernames, Loop>>

NextSelect == SelectCall

SpecSelect == InitSelect /\ [][NextSelect]_vars

----------------------------------------------------------------------------
(* download_file_from_drive called twice, as by two successive runs, on      *)
(* whatever the drive answers; the local files persist between the calls.   *)

InitFetch ==
    /\ pc = "fetch"
    /\ raised_in = ""
    /\ trace = << >>
    /\ session_file = Absent
    /\ issued = 1
    /\ local_files = [n \in LocalNames |-> Absent]
    /\ lg = NoLogin /\ sel = NoSelect /\ dl = NoDownload
    /\ pub = NoPublish /\ smp = NoSample
    /\ nf_ret = [k \in {"folder", "file"} |-> Unset]
    /\ file_name = ""
    /\ media_path = None
    /\ usernames = << >>
    /\ idx = 1 /\ attempted = << >> /\ caught = FALSE /\ cur = NoUser

FetchCall ==
    /\ pc \in {"fetch", "fetch_again"}
    /\ \E name \in FileNames, a \in DriveAnswers :
          /\ Fetch(name, a.folders, a.filesOf, a.downloadOk)
          /\ file_name' = name
    /\ Goto(IF pc = "fetch" THEN "fetch_again" ELSE "fetched")
    /\ UNCHANGED <<trace, session_file, issued, lg, sel, pub, smp,
                   usernames, Loop>>

NextFetch == FetchCall

SpecFetch == InitFetch /\ [][NextFetch]_vars

----------------------------------------------------------------------------
(* get_random_likers_from_targets called on any target list.                *)

InitSample ==
    /\ pc = "sampler"
    /\ raised_in = ""
    /\ trace = << >>
    /\ session_file = Absent
    /\ issued = 1
    /\ local_files = [n \in LocalNames |-> Absent]
    /\ lg = NoLogin /\ sel = NoSelect /\ dl = NoDownload
    /\ pub = NoPublish /\ smp = NoSample
    /\ nf_ret = [k \in {"folder", "file"} |-> Unset]
    /\ file_name = ""
    /\ media_path = None
    /\ usernames = << >>
    /\ idx = 1 /\ attempted = << >> /\ caught = FALSE /\ cur = NoUser

SampleCall ==
    /\ pc = "sampler"
    /\ \E targets \in TargetLists, a \in SampleAnswers :
          /\ Sampling(targets, a.uidOk, a.mediasOk, a.nposts, a.likersOk,
                      a.likers)
          /\ IF smp'.raised THEN Raise("get_random_likers_from_targets")
             ELSE Goto("sampled")
    /\ UNCHANGED <<trace, session_file, issued, local_files, lg, sel, dl,
                   nf_ret, pub, file_name, media_path, Loop>>

NextSample == SampleCall

SpecSample == InitSample /\ [][NextSample]_vars

----------------------------------------------------------------------------
(* Properties *)

Count(s, set) == Cardinality({i \in 1..Len(s) : s[i] \in set})
NoCallsOf(steps) == \A i \in 1..Len(trace) : trace[i][1] \notin steps
Downstream == {"publish", "cleanup", "sample", "login2", "engage"}
Dist(schedule, now, i) == Abs(schedule[i].ts - now)

\* C1: for a schedule with at least one row, the selector returns a row
\* whose distance to "now" is minimal over all rows, and among the rows at
\* that minimal distance the first one in file order.
C1_ClosestFirst ==
    (sel.live /\ Len(sel.schedule) >= 1) =>
        /\ ~sel.raised
        /\ sel.row.label \in 1..Len(sel.schedule)
        /\ LET i == sel.row.label
           IN  /\ sel.row.ts = sel.schedule[i].ts
               /\ sel.row.file = sel.schedule[i].file
               /\ \A j \in 1..Len(sel.schedule) :
                     Dist(sel.schedule, sel.now, i) <= Dist(sel.schedule, sel.now, j)
               /\ \A j \in 1..(i - 1) :
                     Dist(sel.schedule, sel.now, i) < Dist(sel.schedule, sel.now, j)

\* A schedule whose second row, one earlier and one later than "now", ties
\* with the third at the minimal distance: the second is returned.
C1_Witness ==
    /\ sel.live /\ Len(sel.schedule) = 3 /\ sel.row.label = 2
    /\ Dist(sel.schedule, sel.now, 1) > Dist(sel.schedule, sel.now, 2)
    /\ Dist(sel.schedule, sel.now, 3) = Dist(sel.schedule, sel.now, 2)
    /\ sel.schedule[2].ts > sel.now /\ sel.schedule[3].ts < sel.now
    /\ sel.row.file = sel.schedule[2].file /\ pc = "selected"

\* C2: for a schedule with zero rows the selector gives an empty result the
\* caller treats as falsy: the run makes no download, upload, removal or
\* engagement call and completes without raising.
C2_EmptyScheduleSkips ==
    (sel.live /\ Len(sel.schedule) = 0) =>
        /\ pc = "done"
        /\ raised_in = ""
        /\ NoCallsOf({"download"} \cup Downstream)

\* C3 (as amended): the fetcher returns None when the folder query has no
\* match and None when the file query within the first matching folder has
\* no match, the two cases differing only in the message printed; no local
\* file is created or overwritten in either case; and when both queries
\* match and the download completes it returns file_name, the local file
\* holding the bytes of the first matching file of the first matching folder.
C3_NotFoundIsNone ==
    /\ \A k \in {"folder", "file"} : nf_ret[k] \in {Unset, None}
    /\ dl.live =>
          IF dl.folders = << >>
          THEN /\ dl.ret = None /\ dl.log = "folder_not_found"
               /\ local_files = dl.before
          ELSE IF dl.filesOf[dl.folders[1]] = << >>
          THEN /\ dl.ret = None /\ dl.log = "file_not_found"
               /\ local_files = dl.before
          ELSE dl.ret # "raise" =>
                  /\ dl.ret = dl.file_name
                  /\ local_files[dl.file_name] =
                        Content(dl.folders[1], dl.filesOf[dl.folders[1]][1])
                  /\ \A n \in LocalNames \ {dl.file_name} :
                        local_files[n] = dl.before[n]

\* Both not-found outcomes have been returned, the last one for a file that
\* the first matching folder lacks and the second matching folder holds.
C3_Witness ==
    /\ nf_ret["folder"] = None /\ nf_ret["file"] = None
    /\ dl.live /\ dl.log = "file_not_found"
    /\ dl.folders = <<1, 2>> /\ dl.filesOf[2] # << >>

\* C3 (as stated): as above, and the two not-found outcomes are distinct
\* results.
C3_NotFoundDistinct ==
    /\ dl.live =>
          IF dl.folders = << >>
          THEN local_files = dl.before /\ dl.log = "folder_not_found"
          ELSE IF dl.filesOf[dl.folders[1]] = << >>
          THEN local_files = dl.before /\ dl.log = "file_not_found"
          ELSE dl.ret # "raise" => dl.ret = dl.file_name
    /\ (nf_ret["folder"] # Unset /\ nf_ret["file"] # Unset) =>
          nf_ret["folder"] # nf_ret["file"]

\* C4: when the fetcher reports folder-not-found or file-not-found, the
\* returned sentinel ends the run there: no post or story upload, no local
\* file removal, no liker sampling, no second login and no like ever occurs.
C4_NotFoundShortCircuits ==
    (Calls("download") # << >> /\ media_path = None
        /\ ~Has("download", "get_media_fail")) =>
        /\ pc = "done"
        /\ NoCallsOf(Downstream)
        /\ usernames = << >> /\ attempted = << >> /\ cur = NoUser

C4_Witness ==
    /\ dl.live /\ dl.log = "file_not_found" /\ pc = "done"
    /\ Calls("download") = Tag("download", <<"list_folders", "list_files">>)

\* C5: if a session file exists and the relogin succeeds, the client is
\* returned with no full login and no write of the session file; if the
\* relogin fails or no session file exists, exactly one full login is made
\* and, if it succeeds, the session is then written to the file, replacing
\* its content.  Whenever a client is returned, the session file exists.
C5_CacheOrRefresh ==
    lg.live =>
        LET called(c) == c \in Range(lg.calls)
            logins == Count(lg.calls, {"login", "login_fail"})
            n == Len(lg.calls)
        IN  /\ (os_path_exists(lg.before) /\ called("relogin")) =>
                  /\ lg.ret = "client" /\ logins = 0
                  /\ ~called("dump_settings")
                  /\ session_file = lg.before
            /\ (~os_path_exists(lg.before) \/ called("relogin_fail")) =>
                  /\ logins = 1
                  /\ called("login") =>
                        /\ lg.ret = "client"
                        /\ lg.calls[n - 1] = "login"
                        /\ lg.calls[n] = "dump_settings"
                        /\ Count(lg.calls, {"dump_settings"}) = 1
                        /\ session_file = lg.settings
                        /\ session_file # lg.before
                  /\ called("login_fail") =>
                        /\ lg.ret = "raise" /\ ~called("dump_settings")
                        /\ session_file = lg.before
            /\ ~os_path_exists(lg.before) => ~called("load_settings")
            /\ lg.ret = "client" => os_path_exists(session_file)

\* The relogin on an existing session file fails, the full login succeeds
\* and the file is overwritten.
C5_Witness ==
    /\ lg.live /\ os_path_exists(lg.before) /\ lg.ret = "client"
    /\ lg.calls = <<"load_settings", "relogin_fail", "login", "dump_settings">>
    /\ session_file # lg.before

\* C6: the sampler never raises and returns at most 10 usernames: [] for an
\* empty target list and for any failure of the user lookup, the media fetch
\* or the liker fetch, [] without fetching likers when the account has no
\* post, and otherwise the first 10 (or fewer) likers in the order given.
C6_SamplerTotal ==
    smp.live =>
        /\ ~smp.raised /\ pc # "raised"
        /\ usernames = smp.ret
        /\ Len(smp.ret) <= LIKERS_KEPT
        /\ (smp.targets = << >> \/ ~smp.uidOk \/ ~smp.mediasOk
               \/ (smp.nposts > 0 /\ ~smp.likersOk)) => smp.ret = << >>
        /\ smp.targets = << >> => smp.calls = << >>
        /\ (smp.targets # << >> /\ smp.uidOk /\ smp.mediasOk /\ smp.nposts = 0) =>
               /\ smp.ret = << >>
               /\ \A i \in 1..Len(smp.calls) :
                     smp.calls[i] \notin {"media_likers", "media_likers_fail"}
        /\ (smp.targets # << >> /\ smp.likersOk) =>
               /\ Len(smp.ret) = Min(Len(smp.likers), LIKERS_KEPT)
               /\ \A i \in 1..Len(smp.ret) : smp.ret[i] = smp.likers[i]

\* More likers than are kept, answered in descending order.
C6_Witness ==
    /\ smp.live /\ smp.likersOk
    /\ Len(smp.likers) > LIKERS_KEPT /\ Len(smp.ret) = LIKERS_KEPT
    /\ smp.likers[1] > smp.likers[2] /\ smp.ret[1] = smp.likers[1]

C8_FailuresIsolated ==
    /\ raised_in # "process_usernames"
    /\ pc = "engage" =>
          /\ idx \in 1..(Len(usernames) + 1)
          /\ attempted = SubSeq(usernames, 1, idx - 1)
    /\ (pc = "done" /\ usernames # << >>) => attempted = usernames
    /\ Count(trace, {<<"engage", "iteration">>}) = Len(attempted)

\* An earlier iteration ended in the except clause and the last user of the
\* list is liked.
C8_Witness ==
    /\ pc = "done" /\ Len(usernames) >= 2 /\ attempted = usernames
    /\ caught /\ ~cur.raised /\ cur.liked > 0
    /\ cur.user = usernames[Len(usernames)]

\* C9: the publisher uploads the post first and attempts the story only
\* after the post upload succeeded; an upload failure ends the run; after a
\* story failure the post stays published with no retry, the downloaded file
\* is not removed and no engagement step is made.
C9_PostThenStory ==
    LET p == [i \in 1..Len(Calls("publish")) |-> Calls("publish")[i][2]]
        story == {"video_upload_to_story", "video_upload_to_story_fail"}
    IN  /\ Count(p, {"video_upload", "video_upload_fail"}) <= 1
        /\ Count(p, story) <= 1
        /\ Count(p, story) = 1 => (Len(p) = 2 /\ p[1] = "video_upload")
        /\ (Has("publish", "video_upload_fail")
               \/ Has("publish", "video_upload_to_story_fail")) =>
              /\ pc = "raised" /\ raised_in = "upload_video_and_story"
              /\ local_files[media_path] # Absent
              /\ NoCallsOf(Downstream \ {"publish"})
              /\ usernames = << >> /\ attempted = << >> /\ cur = NoUser

C9_Witness ==
    /\ pc = "raised"
    /\ Calls("publish") = Tag("publish", <<"video_upload", "video_upload_to_story_fail">>)
    /\ local_files[media_path] # Absent /\ local_files[Jpg(media_path)] # Absent

Rank(step) ==
    CASE step = "login1" -> 1 [] step = "service" -> 2 [] step = "select" -> 3
      [] step = "download" -> 4 [] step = "publish" -> 5
      [] step = "cleanup" -> 6 [] step = "sample" -> 7
      [] step = "login2" -> 8 [] step = "engage" -> 9

\* C10: the steps occur only in the order login, selection, download,
\* publish, cleanup, sampling, fresh login, engage; the downloaded file and
\* its '.jpg' are removed only after both uploads succeeded and before any
\* sampling call; the fresh client is built and the actor run only when the
\* sampler returned a non-empty list, and when it returns [] nothing follows.
C10_StepOrder ==
    /\ \A i, j \in 1..Len(trace) :
          i < j => Rank(trace[i][1]) <= Rank(trace[j][1])
    /\ Calls("cleanup") # << >> =>
          Calls("publish") = Tag("publish", <<"video_upload", "video_upload_to_story">>)
    /\ (Has("cleanup", "remove") \/ Has("cleanup", "remove_jpg")) =>
          /\ local_files[media_path] = Absent
          /\ local_files[Jpg(media_path)] = Absent
    /\ (pc = "sample" \/ Calls("sample") # << >>) => Has("cleanup", "remove")
    /\ (Calls("login2") # << >> \/ Calls("engage") # << >> \/ pc = "engage") =>
          usernames # << >>
    /\ Calls("engage") # << >> =>
          Has("login2", "Client") /\ Count(Calls("login2"), {<<"login2", "Client">>}) = 1
    /\ (Calls("sample") # << >> /\ usernames = << >>) =>
          /\ pc = "done"
          /\ trace[Len(trace)][1] = "sample"

\* The sidecar was removed with the file and the sampler returned []: the
\* run is over with the sampler's calls as the last ones.
C10_Witness ==
    /\ pc = "done" /\ usernames = << >>
    /\ Has("cleanup", "remove_jpg") /\ Has("sample", "user_medias")
    /\ trace[Len(trace)][1] = "sample"

====
